---- MODULE Spec2Model ----
(***************************************************************************)
(* K8Intel agent (agent.py): the resilient submitter post_to_api, the      *)
(* sampling loop main_loop with its inventory cadence, and the background  *)
(* event watcher watch_kubernetes_events, as one state machine.            *)
(*                                                                         *)
(* Percentages and byte counters are integers; only their order and their  *)
(* differences matter to the code.  Variables marked "history" are not     *)
(* program state: they record what the program did so that properties can  *)
(* be stated.                                                              *)
(***************************************************************************)
EXTENDS Integers, Sequences, FiniteSets, TLC

VARIABLES
    mpc,                  \* position of the main thread
    wpc,                  \* position of the event watcher thread
    call,                 \* per thread: retry state of its post_to_api call; the
                          \* final state of a call stays until the thread moves on
    all_metrics,          \* main_loop: the six sampled values, in dict order
    idx,                  \* main_loop: position of the for loop over all_metrics
    last_inventory_time,  \* main_loop local
    now,                  \* the last value time.time() returned
    cur_event,            \* watcher: the event being processed
    cycle,                \* history: what the current sampling cycle did
    firstCycle,           \* history: TRUE until the first cycle went to sleep
    invTimes,             \* history: due-check times at which inventory ran
    wSubs,                \* history: alert calls made for cur_event
    poll_interval,        \* POLL_INTERVAL, read from the environment at start
    inputs,               \* the readings the OS can return in this run
    sleeps,               \* history: what the tick that ended last slept
    window                \* history: the counter readings of the Sample just
                          \* taken, kept until the main thread moves on

vars == <<mpc, wpc, call, all_metrics, idx, last_inventory_time, now,
          cur_event, cycle, firstCycle, invTimes, wSubs, poll_interval,
          inputs, sleeps, window>>

----------------------------------------------------------------------------
(* Configuration and program constants *)

max_tries == 5
CPU_THRESHOLD == 90
MEMORY_THRESHOLD == 85
inventory_interval == 300
K8S_NAMESPACES_TO_SCAN == <<"default", "kube-system">>
RoutineReasons == {"SuccessfulCreate", "SuccessfulDelete", "Pulled"}
\* all_metrics built with Memory ahead of CPU
MetricTypes_memory_first ==
    <<"Memory", "CPU", "DiskReadBPS", "DiskWriteBPS", "NetSentBPS", "NetRecvBPS">>

MetricTypes ==
    <<"CPU", "Memory", "DiskReadBPS", "DiskWriteBPS", "NetSentBPS", "NetRecvBPS">>

(* Bounds of the model *)

MaxTime == 600       \* the clock is not read beyond this value
TimeStep == 150      \* the clock advances by one or two steps between reads

Threads == {"main", "watch"}

----------------------------------------------------------------------------
(* Inputs from the environment *)

\* What one requests.post attempt can end in: no response at all (connection
\* error, timeout), or a response with a status code.
Responses ==
    { [has_response |-> FALSE, status_code |-> 0],
      [has_response |-> TRUE,  status_code |-> 200],
      [has_response |-> TRUE,  status_code |-> 404],
      [has_response |-> TRUE,  status_code |-> 500] }

\* psutil.cpu_percent / virtual_memory().percent readings: below, at and
\* above the thresholds.
CpuValues == {50, CPU_THRESHOLD, 95}
MemValues == {50, MEMORY_THRESHOLD, 90}

\* Counter readings of psutil.disk_io_counters() and psutil.net_io_counters()
\* at one moment.
Moments ==
    { [read_bytes |-> 0, write_bytes |-> 0, bytes_sent |-> 0, bytes_recv |-> 0],
      [read_bytes |-> 100, write_bytes |-> 200, bytes_sent |-> 300,
       bytes_recv |-> 400] }

\* The OS-counter reads of one cycle, in program order; "none" = no read fails.
ReadPoints ==
    {"disk_io_start", "net_io_start", "cpu_percent", "virtual_memory",
     "disk_io_end", "net_io_end"}

EventReasons == RoutineReasons \cup {"Failed", "BackOff"}
\* core/v1 events may carry an empty type
EventTypes == {"Normal", "Warning", ""}
Events == [reason : EventReasons, type : EventTypes]
NoEvent == [reason |-> "", type |-> "None"]

----------------------------------------------------------------------------
(* post_to_api under backoff.on_exception *)

\* response.raise_for_status(), or requests.post raising without a response
Raises(o) ==
    \/ ~o.has_response
    \/ (400 <= o.status_code /\ o.status_code < 600)

\* giveup taken on the wrong status class
giveup_wrong_class(o) ==
    o.has_response /\ 500 <= o.status_code /\ o.status_code < 600

giveup(o) ==
    o.has_response /\ 400 <= o.status_code /\ o.status_code < 500

NoResp == [has_response |-> FALSE, status_code |-> 0]
IdleCall == [tries |-> 0, resp |-> NoResp, status |-> "idle"]
NewCall == [tries |-> 0, resp |-> NoResp, status |-> "running"]

\* The retry state a thread's next attempt starts from: that of the call in
\* progress, or a fresh one when the attempt is the first of a new call.
Begin(c) == IF c.status = "running" THEN c ELSE NewCall

\* post_to_api with the attempt budget off by one
post_to_api_one_more(c, o) ==
    LET n == c.tries + 1 IN
    IF ~Raises(o)
    THEN [tries |-> n, resp |-> o, status |-> "success"]
    ELSE IF giveup(o) \/ n > max_tries
         THEN [tries |-> n, resp |-> o, status |-> "failure"]
         ELSE [tries |-> n, resp |-> o, status |-> "running"]

\* One attempt of the decorated function, ending in response o.
post_to_api(c, o) ==
    LET n == c.tries + 1 IN
    IF ~Raises(o)
    THEN [tries |-> n, resp |-> o, status |-> "success"]
    ELSE IF giveup(o) \/ n = max_tries
         THEN [tries |-> n, resp |-> o, status |-> "failure"]
         ELSE [tries |-> n, resp |-> o, status |-> "running"]

----------------------------------------------------------------------------
(* History helpers *)

NewCycle == [log |-> <<>>, sampled |-> FALSE, dueChecked |-> FALSE,
             invRan |-> FALSE, readFailed |-> "none", listFailed |-> "none"]

NoWindow == [io_start |-> <<>>, io_end |-> <<>>]

Entry(ep, m, sev) ==
    [endpoint |-> ep, metric |-> m, severity |-> sev, result |-> "pending"]

\* the log with the result of its last (pending) entry filled in
Settle(log, res) == [log EXCEPT ![Len(log)].result = res]

----------------------------------------------------------------------------
(* Initial state: the process has validated its configuration and loaded    *)
(* the cluster client.                                                      *)

\* K8INTEL_POLL_INTERVAL values: the default and the two smallest
PollIntervals == {0, 1, 30}

\* every reading of the model
AllReadings == [cpu |-> CpuValues, mem |-> MemValues, moments |-> Moments]

\* a host whose readings do not change: cpu above its threshold, memory
\* below, counters standing still
SteadyReadings ==
    [cpu |-> {95}, mem |-> {50},
     moments |-> {[read_bytes |-> 100, write_bytes |-> 200,
                   bytes_sent |-> 300, bytes_recv |-> 400]}]

InitWith(interval, readings) ==
    /\ poll_interval = interval
    /\ inputs = readings
    /\ sleeps = <<>>
    /\ window = NoWindow
    /\ mpc = "boot"
    /\ wpc = "not_started"
    /\ call = [t \in Threads |-> IdleCall]
    /\ all_metrics = <<>>
    /\ idx = 0
    /\ last_inventory_time = 0
    /\ now = 0
    /\ cur_event = NoEvent
    /\ cycle = NewCycle
    /\ firstCycle = TRUE
    /\ invTimes = <<>>
    /\ wSubs = <<>>

\* the default poll interval on a steady host
Init == InitWith(30, SteadyReadings)

\* any of the poll intervals, every reading
InitAnyInterval ==
    \E interval \in PollIntervals : InitWith(interval, AllReadings)

----------------------------------------------------------------------------
(* Alert rule of main_loop *)

\* the alert rule with inclusive comparisons
AlertSeverity_inclusive(metric_type, value) ==
    IF metric_type = "CPU" /\ value >= CPU_THRESHOLD THEN "Critical"
    ELSE IF metric_type = "Memory" /\ value >= MEMORY_THRESHOLD THEN "Warning"
    ELSE "None"

AlertSeverity(metric_type, value) ==
    IF metric_type = "CPU" /\ value > CPU_THRESHOLD THEN "Critical"
    ELSE IF metric_type = "Memory" /\ value > MEMORY_THRESHOLD THEN "Warning"
    ELSE "None"

\* the due check without the interval
InventoryDue_no_interval(current_time, last) ==
    current_time >= last

InventoryDue(current_time, last) ==
    (current_time - last) >= inventory_interval

\* last_inventory_time initialised to the start time itself
InitialLastInventoryTime_now(t) == t

\* last_inventory_time as main_loop sets it before its first iteration
InitialLastInventoryTime(t) == t - inventory_interval

\* the write rate taken from the read counter
Metrics_write_from_read(cpu_usage, memory_usage, io_start, io_end) ==
    << cpu_usage,
       memory_usage,
       io_end.read_bytes - io_start.read_bytes,
       io_end.read_bytes - io_start.read_bytes,
       io_end.bytes_sent - io_start.bytes_sent,
       io_end.bytes_recv - io_start.bytes_recv >>

\* the six values of all_metrics from the readings of one window
Metrics(cpu_usage, memory_usage, io_start, io_end) ==
    << cpu_usage,
       memory_usage,
       io_end.read_bytes - io_start.read_bytes,
       io_end.write_bytes - io_start.write_bytes,
       io_end.bytes_sent - io_start.bytes_sent,
       io_end.bytes_recv - io_start.bytes_recv >>

----------------------------------------------------------------------------
(* Main thread *)

\* __main__ with main_loop called ahead of event_thread.start()
StartEventThread_after_loop ==
    /\ mpc = "boot"
    /\ mpc' = "main_loop"
    /\ UNCHANGED <<wpc, call, all_metrics, idx, last_inventory_time, now,
                   cur_event, cycle, firstCycle, invTimes, wSubs>>
    /\ UNCHANGED <<inputs, poll_interval, sleeps, window>>

\* __main__: the watcher thread is started, then main_loop is entered
StartEventThread ==
    /\ mpc = "boot"
    /\ mpc' = "main_loop"
    /\ wpc' = "waiting"
    /\ UNCHANGED <<call, all_metrics, idx, last_inventory_time, now,
                   cur_event, cycle, firstCycle, invTimes, wSubs>>
    /\ UNCHANGED <<inputs, poll_interval, sleeps, window>>

\* main_loop before the while loop
MainLoopEnter ==
    /\ mpc = "main_loop"
    /\ last_inventory_time' = InitialLastInventoryTime(now)
    /\ mpc' = "sample"
    /\ UNCHANGED <<wpc, call, all_metrics, idx, now, cur_event, cycle,
                   firstCycle, invTimes, wSubs>>
    /\ UNCHANGED <<inputs, poll_interval, sleeps, window>>

\* the sampler with CPU and Memory posted as soon as they are read: a failure
\* of one of the end reads leaves the cycle with those two submitted
Sample_partial ==
    /\ mpc = "sample"
    /\ \E failed \in ReadPoints \cup {"none"} :
         IF failed \in {"none", "disk_io_end", "net_io_end"}
         THEN \E cpu_usage \in inputs.cpu, memory_usage \in inputs.mem,
                 io_start \in inputs.moments, io_end \in inputs.moments :
                /\ all_metrics' = Metrics(cpu_usage, memory_usage,
                                          io_start, io_end)
                /\ idx' = 1
                /\ mpc' = IF failed = "none" THEN "post_metric" ELSE "sleep"
                /\ cycle' = [cycle EXCEPT
                       !.sampled = (failed = "none"),
                       !.readFailed = failed,
                       !.log = <<Entry("metrics", MetricTypes[1], "None")>>]
                /\ window' = IF failed = "none"
                             THEN [io_start |-> io_start, io_end |-> io_end]
                             ELSE NoWindow
         ELSE /\ mpc' = "sleep"
              /\ cycle' = [cycle EXCEPT !.readFailed = failed]
              /\ UNCHANGED <<all_metrics, idx, window>>
    /\ call' = [call EXCEPT !["main"] = IdleCall]
    /\ UNCHANGED <<wpc, last_inventory_time, now, cur_event,
                   firstCycle, invTimes, wSubs>>
    /\ UNCHANGED <<inputs, poll_interval, sleeps>>

\* The reads of one window.  A failing read raises; the exception is caught
\* at the end of the iteration and the loop goes to its sleep.
Sample ==
    /\ mpc = "sample"
    /\ \E failed \in ReadPoints \cup {"none"} :
         IF failed = "none"
         THEN \E cpu_usage \in inputs.cpu, memory_usage \in inputs.mem,
                 io_start \in inputs.moments, io_end \in inputs.moments :
                /\ all_metrics' = Metrics(cpu_usage, memory_usage,
                                          io_start, io_end)
                /\ idx' = 1
                /\ mpc' = "post_metric"
                /\ cycle' = [cycle EXCEPT
                       !.sampled = TRUE,
                       !.log = <<Entry("metrics", MetricTypes[1], "None")>>]
                /\ window' = [io_start |-> io_start, io_end |-> io_end]
         ELSE /\ mpc' = "sleep"
              /\ cycle' = [cycle EXCEPT !.readFailed = failed]
              /\ UNCHANGED <<all_metrics, idx, window>>
    /\ call' = [call EXCEPT !["main"] = IdleCall]
    /\ UNCHANGED <<wpc, last_inventory_time, now, cur_event,
                   firstCycle, invTimes, wSubs>>
    /\ UNCHANGED <<inputs, poll_interval, sleeps>>

\* the for loop moves on from metric idx: the next metric's post_to_api call,
\* or the statements after the loop
NextMetric(log) ==
    IF idx < Len(MetricTypes)
    THEN /\ idx' = idx + 1
         /\ mpc' = "post_metric"
         /\ cycle' = [cycle EXCEPT
                !.log = Append(log, Entry("metrics", MetricTypes[idx + 1],
                                          "None"))]
    ELSE /\ idx' = idx
         /\ mpc' = "check_inventory"
         /\ cycle' = [cycle EXCEPT !.log = log]

\* One attempt of post_to_api("metrics", payload) for the metric at idx and,
\* when the call returns, the alert check of that metric.
PostMetricAttempt ==
    /\ mpc = "post_metric"
    /\ \E o \in Responses :
         LET c == post_to_api(Begin(call["main"]), o)
             sev == AlertSeverity(MetricTypes[idx], all_metrics[idx])
         IN /\ call' = [call EXCEPT !["main"] = c]
            /\ CASE c.status = "running" ->
                      UNCHANGED <<mpc, idx, cycle>>
                 [] c.status = "failure" ->
                      /\ mpc' = "sleep"
                      /\ idx' = idx
                      /\ cycle' = [cycle EXCEPT
                                     !.log = Settle(cycle.log, "failed")]
                 [] c.status = "success" ->
                      IF sev # "None"
                      THEN /\ mpc' = "post_alert"
                           /\ idx' = idx
                           /\ cycle' = [cycle EXCEPT !.log =
                                  Append(Settle(cycle.log, "ok"),
                                         Entry("alerts", MetricTypes[idx], sev))]
                      ELSE NextMetric(Settle(cycle.log, "ok"))
    /\ window' = NoWindow
    /\ UNCHANGED <<wpc, all_metrics, last_inventory_time, now, cur_event,
                   firstCycle, invTimes, wSubs>>
    /\ UNCHANGED <<inputs, poll_interval, sleeps>>

\* the alert call with its own handler: a failed alert is logged and the for
\* loop goes on
PostAlertAttempt_swallowed ==
    /\ mpc = "post_alert"
    /\ \E o \in Responses :
         LET c == post_to_api(Begin(call["main"]), o)
         IN /\ call' = [call EXCEPT !["main"] = c]
            /\ CASE c.status = "running" ->
                      UNCHANGED <<mpc, idx, cycle>>
                 [] c.status = "failure" ->
                      NextMetric(Settle(cycle.log, "failed"))
                 [] c.status = "success" ->
                      NextMetric(Settle(cycle.log, "ok"))
    /\ UNCHANGED <<wpc, all_metrics, last_inventory_time, now, cur_event,
                   firstCycle, invTimes, wSubs>>
    /\ UNCHANGED <<inputs, poll_interval, sleeps, window>>

\* One attempt of post_to_api("alerts", alert_payload) in main_loop
PostAlertAttempt ==
    /\ mpc = "post_alert"
    /\ \E o \in Responses :
         LET c == post_to_api(Begin(call["main"]), o)
         IN /\ call' = [call EXCEPT !["main"] = c]
            /\ CASE c.status = "running" ->
                      UNCHANGED <<mpc, idx, cycle>>
                 [] c.status = "failure" ->
                      /\ mpc' = "sleep"
                      /\ idx' = idx
                      /\ cycle' = [cycle EXCEPT
                                     !.log = Settle(cycle.log, "failed")]
                 [] c.status = "success" ->
                      NextMetric(Settle(cycle.log, "ok"))
    /\ UNCHANGED <<wpc, all_metrics, last_inventory_time, now, cur_event,
                   firstCycle, invTimes, wSubs>>
    /\ UNCHANGED <<inputs, poll_interval, sleeps, window>>

\* current_time = time.time() and the due check; when due,
\* report_cluster_inventory is entered.
CheckInventory ==
    /\ mpc = "check_inventory"
    /\ \E d \in {TimeStep, 2 * TimeStep} :
         /\ now + d <= MaxTime
         /\ now' = now + d
         /\ IF InventoryDue(now + d, last_inventory_time)
            THEN /\ mpc' = "inventory"
                 /\ cycle' = [cycle EXCEPT !.dueChecked = TRUE,
                                           !.invRan = TRUE]
                 /\ invTimes' = Append(invTimes, now + d)
            ELSE /\ mpc' = "sleep"
                 /\ cycle' = [cycle EXCEPT !.dueChecked = TRUE]
                 /\ invTimes' = invTimes
    /\ call' = [call EXCEPT !["main"] = IdleCall]
    /\ UNCHANGED <<wpc, all_metrics, idx, last_inventory_time,
                   cur_event, firstCycle, wSubs>>
    /\ UNCHANGED <<inputs, poll_interval, sleeps, window>>

\* the collector with a handler around each namespace: a failing pod listing
\* is skipped and what was listed is posted
ReportInventoryList_partial ==
    /\ mpc = "inventory"
    /\ \E failed \in {"none", "list_node"} \cup
                     {K8S_NAMESPACES_TO_SCAN[i] :
                        i \in 1..Len(K8S_NAMESPACES_TO_SCAN)} :
         IF failed # "list_node"
         THEN /\ mpc' = "post_inventory"
              /\ cycle' = [cycle EXCEPT
                     !.listFailed = failed,
                     !.log = Append(cycle.log,
                                    Entry("inventory", "None", "None"))]
              /\ UNCHANGED last_inventory_time
         ELSE /\ mpc' = "sleep"
              /\ last_inventory_time' = now
              /\ cycle' = [cycle EXCEPT !.listFailed = failed]
    /\ call' = [call EXCEPT !["main"] = IdleCall]
    /\ UNCHANGED <<wpc, all_metrics, idx, now, cur_event, firstCycle,
                   invTimes, wSubs>>
    /\ UNCHANGED <<inputs, poll_interval, sleeps, window>>

\* report_cluster_inventory up to its post_to_api call: the node listing and
\* the pod listing of each namespace.  A failing listing raises; the function
\* logs it and returns, and main_loop sets last_inventory_time.
ReportInventoryList ==
    /\ mpc = "inventory"
    /\ \E failed \in {"none", "list_node"} \cup
                     {K8S_NAMESPACES_TO_SCAN[i] :
                        i \in 1..Len(K8S_NAMESPACES_TO_SCAN)} :
         IF failed = "none"
         THEN /\ mpc' = "post_inventory"
              /\ cycle' = [cycle EXCEPT !.log =
                     Append(cycle.log, Entry("inventory", "None", "None"))]
              /\ UNCHANGED last_inventory_time
         ELSE /\ mpc' = "sleep"
              /\ last_inventory_time' = now
              /\ cycle' = [cycle EXCEPT !.listFailed = failed]
    /\ call' = [call EXCEPT !["main"] = IdleCall]
    /\ UNCHANGED <<wpc, all_metrics, idx, now, cur_event, firstCycle,
                   invTimes, wSubs>>
    /\ UNCHANGED <<inputs, poll_interval, sleeps, window>>

\* last_inventory_time set only after a collection that was submitted
PostInventoryAttempt_on_success ==
    /\ mpc = "post_inventory"
    /\ \E o \in Responses :
         LET c == post_to_api(Begin(call["main"]), o)
         IN /\ call' = [call EXCEPT !["main"] = c]
            /\ IF c.status = "running"
               THEN UNCHANGED <<mpc, cycle, last_inventory_time>>
               ELSE /\ mpc' = "sleep"
                    /\ last_inventory_time' =
                          IF c.status = "success" THEN now
                          ELSE last_inventory_time
                    /\ cycle' = [cycle EXCEPT !.log =
                           Settle(cycle.log,
                                  IF c.status = "success" THEN "ok"
                                  ELSE "failed")]
    /\ UNCHANGED <<wpc, all_metrics, idx, now, cur_event, firstCycle,
                   invTimes, wSubs>>
    /\ UNCHANGED <<inputs, poll_interval, sleeps, window>>

\* One attempt of post_to_api(inventory) inside report_cluster_inventory; when
\* the call ends either way, the function returns and main_loop sets
\* last_inventory_time.
PostInventoryAttempt ==
    /\ mpc = "post_inventory"
    /\ \E o \in Responses :
         LET c == post_to_api(Begin(call["main"]), o)
         IN /\ call' = [call EXCEPT !["main"] = c]
            /\ IF c.status = "running"
               THEN UNCHANGED <<mpc, cycle, last_inventory_time>>
               ELSE /\ mpc' = "sleep"
                    /\ last_inventory_time' = now
                    /\ cycle' = [cycle EXCEPT !.log =
                           Settle(cycle.log,
                                  IF c.status = "success" THEN "ok"
                                  ELSE "failed")]
    /\ UNCHANGED <<wpc, all_metrics, idx, now, cur_event, firstCycle,
                   invTimes, wSubs>>
    /\ UNCHANGED <<inputs, poll_interval, sleeps, window>>

Max(a, b) == IF a >= b THEN a ELSE b

\* the sleep without its clamp
SleepDuration_unclamped(interval) == interval - 1

\* the argument of time.sleep
SleepDuration(interval) == Max(0, interval - 1)

\* time.sleep at the end of the iteration, then the next iteration
Sleep ==
    /\ mpc = "sleep"
    /\ mpc' = "sample"
    /\ sleeps' = <<SleepDuration(poll_interval)>>
    /\ cycle' = NewCycle
    /\ firstCycle' = FALSE
    /\ call' = [call EXCEPT !["main"] = IdleCall]
    /\ UNCHANGED <<wpc, all_metrics, idx, last_inventory_time, now,
                   cur_event, invTimes, wSubs>>
    /\ UNCHANGED <<inputs, poll_interval, window>>

----------------------------------------------------------------------------
(* Event watcher thread *)

\* severity decided by testing for "Warning" instead of "Normal"
EventSeverity_by_warning(e) == IF e.type = "Warning" THEN "Warning" ELSE "Info"

EventSeverity(e) == IF e.type = "Normal" THEN "Info" ELSE "Warning"

Noteworthy(e) == e.reason \notin RoutineReasons

\* the watcher handing each alert to a worker: the next event is taken while
\* the alert call of the last one is still in progress
WatchEvent_no_wait ==
    /\ wpc \in {"waiting", "posting"}
    /\ \E e \in Events :
         /\ cur_event' = e
         /\ IF Noteworthy(e)
            THEN /\ wpc' = "posting"
                 /\ wSubs' = <<EventSeverity(e)>>
            ELSE /\ wpc' = wpc
                 /\ wSubs' = <<>>
    /\ UNCHANGED <<mpc, call, all_metrics, idx, last_inventory_time, now,
                   cycle, firstCycle, invTimes>>
    /\ UNCHANGED <<inputs, poll_interval, sleeps, window>>

\* The stream yields an event: the body of the for loop up to its
\* post_to_api call.
WatchEvent ==
    /\ wpc = "waiting"
    /\ \E e \in Events :
         /\ cur_event' = e
         /\ IF Noteworthy(e)
            THEN /\ wpc' = "posting"
                 /\ wSubs' = <<EventSeverity(e)>>
            ELSE /\ wpc' = "waiting"
                 /\ wSubs' = <<>>
    /\ call' = [call EXCEPT !["watch"] = IdleCall]
    /\ UNCHANGED <<mpc, all_metrics, idx, last_inventory_time, now,
                   cycle, firstCycle, invTimes>>
    /\ UNCHANGED <<inputs, poll_interval, sleeps, window>>

\* the watcher with the try around the for loop: a raising call ends the thread
WatchPostAttempt_uncaught ==
    /\ wpc = "posting"
    /\ \E o \in Responses :
         LET c == post_to_api(Begin(call["watch"]), o)
         IN /\ call' = [call EXCEPT !["watch"] = c]
            /\ wpc' = CASE c.status = "running" -> "posting"
                        [] c.status = "failure" -> "ended"
                        [] OTHER -> "waiting"
    /\ UNCHANGED <<mpc, all_metrics, idx, last_inventory_time, now,
                   cur_event, cycle, firstCycle, invTimes, wSubs>>
    /\ UNCHANGED <<inputs, poll_interval, sleeps, window>>

\* the retry counter kept at module level: an attempt of the watcher counts
\* on from the call the main thread has in progress
WatchPostAttempt_shared_counter ==
    /\ wpc = "posting"
    /\ \E o \in Responses :
         LET shared == IF call["main"].status = "running"
                       THEN call["main"] ELSE Begin(call["watch"])
             c == post_to_api(shared, o)
         IN /\ call' = [call EXCEPT !["watch"] = c]
            /\ wpc' = IF c.status = "running" THEN "posting" ELSE "waiting"
    /\ UNCHANGED <<mpc, all_metrics, idx, last_inventory_time, now,
                   cur_event, cycle, firstCycle, invTimes, wSubs>>
    /\ UNCHANGED <<inputs, poll_interval, sleeps, window>>

\* One attempt of post_to_api("alerts", alert_payload) in the watcher; a call
\* that raises is caught inside the for loop.
WatchPostAttempt ==
    /\ wpc = "posting"
    /\ \E o \in Responses :
         LET c == post_to_api(Begin(call["watch"]), o)
         IN /\ call' = [call EXCEPT !["watch"] = c]
            /\ wpc' = IF c.status = "running" THEN "posting" ELSE "waiting"
    /\ UNCHANGED <<mpc, all_metrics, idx, last_inventory_time, now,
                   cur_event, cycle, firstCycle, invTimes, wSubs>>
    /\ UNCHANGED <<inputs, poll_interval, sleeps, window>>

\* the watcher run in the main thread's own flow: the stream's exception
\* takes the process down
WatchStreamEnd_kills_process ==
    /\ wpc = "waiting"
    /\ wpc' = "ended"
    /\ mpc' = "exited"
    /\ call' = [t \in Threads |-> IdleCall]
    /\ UNCHANGED <<all_metrics, idx, last_inventory_time, now,
                   cur_event, cycle, firstCycle, invTimes, wSubs>>
    /\ UNCHANGED <<inputs, poll_interval, sleeps, window>>

\* The stream ends or raises: the thread function returns or dies.
WatchStreamEnd ==
    /\ wpc = "waiting"
    /\ wpc' = "ended"
    /\ call' = [call EXCEPT !["watch"] = IdleCall]
    /\ UNCHANGED <<mpc, all_metrics, idx, last_inventory_time, now,
                   cur_event, cycle, firstCycle, invTimes, wSubs>>
    /\ UNCHANGED <<inputs, poll_interval, sleeps, window>>

----------------------------------------------------------------------------

Next ==
    \/ StartEventThread
    \/ MainLoopEnter
    \/ Sample
    \/ PostMetricAttempt
    \/ PostAlertAttempt
    \/ CheckInventory
    \/ ReportInventoryList
    \/ PostInventoryAttempt
    \/ Sleep
    \/ WatchEvent
    \/ WatchPostAttempt
    \/ WatchStreamEnd

Spec == Init /\ [][Next]_vars

\* Spec interleaves the two threads on a steady host.  The two threads share
\* no variable, so what one region does is the same whatever the other does;
\* what a region does for every reading and poll interval is explored for
\* the region on its own.  The sampling region (the watcher is started and
\* its stream stays silent):
NextSampling ==
    \/ StartEventThread
    \/ MainLoopEnter
    \/ Sample
    \/ PostMetricAttempt
    \/ PostAlertAttempt
    \/ CheckInventory
    \/ ReportInventoryList
    \/ PostInventoryAttempt
    \/ Sleep

SpecSampling == InitAnyInterval /\ [][NextSampling]_vars

\* The watch region on its own (the main thread has started the watcher and
\* takes no further step):
NextWatch ==
    \/ StartEventThread
    \/ WatchEvent
    \/ WatchPostAttempt
    \/ WatchStreamEnd

SpecWatch == Init /\ [][NextWatch]_vars

----------------------------------------------------------------------------
(* Properties *)

Retryable(o) ==
    ~o.has_response \/ (500 <= o.status_code /\ o.status_code < 600)

ClientError(o) ==
    o.has_response /\ 400 <= o.status_code /\ o.status_code < 500

Attempted(c) == c.tries > 0

\* C1: a call goes on to a further attempt only after a network error or a
\* 5xx response and only while fewer than 5 attempts were made; it ends in
\* success exactly at the attempt that got a good response; a retryable
\* failure ends the call only at attempt 5; no call makes a 6th attempt.
C1_RetryBudget ==
    \A t \in Threads :
        LET c == call[t] IN
        /\ c.tries <= 5
        /\ (Attempted(c) /\ c.status = "running") =>
               (Retryable(c.resp) /\ c.tries < 5)
        /\ (Attempted(c) /\ Retryable(c.resp) /\ c.tries < 5) =>
               c.status = "running"
        /\ (Attempted(c) /\ Retryable(c.resp) /\ c.tries = 5) =>
               c.status = "failure"
        /\ (Attempted(c) /\ ~Retryable(c.resp) /\ ~ClientError(c.resp)) =>
               c.status = "success"
        /\ c.status = "success" =>
               (Attempted(c) /\ ~Retryable(c.resp) /\ ~ClientError(c.resp))

\* three retryable failures, then success at the fourth attempt
C1_Witness ==
    /\ call["main"].status = "success"
    /\ call["main"].tries = 4

\* C2: an attempt answered with a 4xx is the last attempt of its call and the
\* call ends in failure, whether it was the first attempt or followed
\* retryable failures.
C2_ClientErrorStops ==
    [][ \A t \in Threads :
          (Attempted(call[t]) /\ ClientError(call[t].resp)) =>
             /\ call[t].status = "failure"
             /\ (call'[t] = call[t] \/ call'[t].tries <= 1) ]_vars

\* a 4xx at the third attempt, after two retryable failures
C2_Witness ==
    /\ call["main"].status = "failure"
    /\ call["main"].tries = 3
    /\ ClientError(call["main"].resp)

----------------------------------------------------------------------------
(* The sampling cycle *)

\* entries of the cycle's log sent to one endpoint
Sent(ep) == SelectSeq(cycle.log, LAMBDA e : e.endpoint = ep)

Severities(entries) == [i \in 1..Len(entries) |-> entries[i].severity]

\* some metric or alert submission of the cycle failed
SubmissionLost ==
    \E i \in 1..Len(cycle.log) :
        /\ cycle.log[i].endpoint \in {"metrics", "alerts"}
        /\ cycle.log[i].result = "failed"

\* C3: a metric or alert submission that fails is lost and the cycle goes on
\* with its remaining steps, so the cycle still gets to its inventory-due
\* check before it sleeps.
C3_LostSubmissionCycleGoesOn ==
    (mpc = "sleep" /\ SubmissionLost) => cycle.dueChecked

\* place of a submission in the order of one cycle: metric, then its alert
OrderOf(e) ==
    LET pos == CASE e.metric = "CPU" -> 1
                 [] e.metric = "Memory" -> 2
                 [] e.metric = "DiskReadBPS" -> 3
                 [] e.metric = "DiskWriteBPS" -> 4
                 [] e.metric = "NetSentBPS" -> 5
                 [] e.metric = "NetRecvBPS" -> 6
                 [] OTHER -> 7
    IN IF e.endpoint = "alerts" THEN 2 * pos ELSE 2 * pos - 1

\* C4: the submissions of one cycle come in the order CPU, Memory, DiskRead,
\* DiskWrite, NetSent, NetRecv, at most one per metric; an alert comes right
\* after the submission of its own metric and before the next metric; no
\* alert follows the NetRecv metric.
C4_SubmissionOrder ==
    LET log == cycle.log IN
    /\ \A i, j \in 1..Len(log) : i < j => OrderOf(log[i]) < OrderOf(log[j])
    /\ \A i \in 1..Len(log) :
          log[i].endpoint = "alerts" =>
             /\ i > 1
             /\ log[i - 1].endpoint = "metrics"
             /\ log[i - 1].metric = log[i].metric
             /\ log[i].metric # "NetRecvBPS"

\* a cycle that sent two alerts and all six metrics
C4_Witness ==
    /\ mpc = "check_inventory"
    /\ Len(Sent("metrics")) = 6
    /\ Len(Sent("alerts")) = 2

ExpectedAlerts(cpuPercent, memoryPercent) ==
    (IF cpuPercent > CPU_THRESHOLD THEN <<"Critical">> ELSE <<>>) \o
    (IF memoryPercent > MEMORY_THRESHOLD THEN <<"Warning">> ELSE <<>>)

AllSixMetricsOk ==
    /\ Len(Sent("metrics")) = 6
    /\ \A i \in 1..6 : Sent("metrics")[i].result = "ok"

\* C5: in a cycle in which the six metric submissions were made and all
\* succeeded, the alerts sent are exactly a Critical one iff cpu is above its
\* threshold and a Warning one iff memory is above its threshold; a value at
\* the threshold and the four rate metrics give no alert.
C5_AlertsOfCycle ==
    AllSixMetricsOk =>
        /\ Severities(Sent("alerts")) =
              ExpectedAlerts(all_metrics[1], all_metrics[2])
        /\ \A i \in 1..Len(Sent("alerts")) :
              Sent("alerts")[i].metric \in {"CPU", "Memory"}

\* cpu at its threshold, memory above, rates above both thresholds
C5_Witness ==
    /\ AllSixMetricsOk
    /\ all_metrics = <<CPU_THRESHOLD, 90, 100, 200, 300, 400>>
    /\ Severities(Sent("alerts")) = <<"Warning">>

\* C6: the alerts attempted in a cycle are a function of the Sample alone; in
\* particular a Sample with cpu above its threshold has exactly one Critical
\* alert attempted in its cycle.
C6_AlertsFunctionOfSample ==
    (mpc = "sleep" /\ cycle.sampled) =>
        Severities(Sent("alerts")) =
            ExpectedAlerts(all_metrics[1], all_metrics[2])

\* C7 as claimed: the first cycle runs the inventory collection.
C7_FirstCycleRunsInventory ==
    (mpc = "sleep" /\ firstCycle) => cycle.invRan

\* C7 amended: the first inventory-due check the sampling region makes finds
\* inventory due and runs the collection, in the first cycle or in whichever
\* later cycle is the first not to be aborted before its due check.
C7_FirstDueCheckRunsInventory ==
    cycle.dueChecked =>
        /\ invTimes # <<>>
        /\ firstCycle => cycle.invRan

C7_Witness ==
    /\ firstCycle
    /\ cycle.dueChecked
    /\ cycle.invRan
    /\ mpc = "sleep"

\* C8: two inventory collections are at least inventory_interval apart in
\* due-check time: after a collection at time t none runs at a due check
\* earlier than t + inventory_interval.
C8_InventorySpacing ==
    \A i, j \in 1..Len(invTimes) :
        i < j => invTimes[j] - invTimes[i] >= 300

\* a due check, made less than the interval after a collection, that ran none
C8_Witness ==
    /\ Len(invTimes) = 1
    /\ cycle.dueChecked
    /\ ~cycle.invRan
    /\ now - invTimes[1] < 300

----------------------------------------------------------------------------
(* The event watcher *)

\* C9: for the event delivered last, no alert call is made when its reason is
\* SuccessfulCreate, SuccessfulDelete or Pulled; otherwise exactly one alert
\* call is made, of severity Info for type Normal and Warning for any other
\* type.
C9_EventFilter ==
    cur_event # NoEvent =>
        /\ wSubs =
             IF cur_event.reason \in
                   {"SuccessfulCreate", "SuccessfulDelete", "Pulled"}
             THEN <<>>
             ELSE IF cur_event.type = "Normal" THEN <<"Info">>
                  ELSE <<"Warning">>
        /\ wpc = "posting" => Len(wSubs) = 1
        /\ Attempted(call["watch"]) => Len(wSubs) = 1

\* an event of a type other than Normal and Warning, its alert call ended
C9_Witness ==
    /\ cur_event = [reason |-> "Failed", type |-> ""]
    /\ wSubs = <<"Warning">>
    /\ wpc = "waiting"
    /\ call["watch"].status = "success"

\* C10: an alert call that fails while an event is processed does not end the
\* watch: the watcher is back at the stream and takes the next event it
\* delivers.
C10_WatchSurvivesFailure ==
    call["watch"].status = "failure" =>
        /\ wpc = "waiting"
        /\ ENABLED WatchEvent

\* retries exhausted for one event, and a 4xx for one
C10_Witness ==
    /\ call["watch"].status = "failure"
    /\ call["watch"].tries = 5
    /\ wpc = "waiting"

----------------------------------------------------------------------------
(* The tick of the sampling region *)

TickPcs ==
    {"sample", "post_metric", "post_alert", "check_inventory", "inventory",
     "post_inventory"}

\* a step in which something of the tick fails: a counter read, a listing, or
\* a post_to_api call of the main thread
TickError ==
    \/ cycle.readFailed = "none" /\ cycle'.readFailed # "none"
    \/ cycle.listFailed = "none" /\ cycle'.listFailed # "none"
    \/ call["main"].status = "running" /\ call'["main"].status = "failure"
    \/ /\ call["main"].status # "running"
       /\ call'["main"].status = "failure"
       /\ call'["main"] # call["main"]

\* C12: the sampling region never leaves its loop; a step of a tick in which
\* something fails takes the region to the sleep of that tick; the sleep is
\* taken once, lasts max(0, poll_interval - 1), which is not negative, and is
\* followed by the next tick.
C12_TickAlwaysSleeps ==
    [][ /\ mpc \in TickPcs \cup {"sleep"} => mpc' \in TickPcs \cup {"sleep"}
        /\ TickError => mpc' = "sleep"
        /\ (mpc = "sleep" /\ mpc' # "sleep") =>
              /\ mpc' = "sample"
              /\ Len(sleeps') = 1
              /\ sleeps'[1] = (IF poll_interval - 1 > 0
                               THEN poll_interval - 1 ELSE 0)
              /\ sleeps'[1] >= 0 ]_vars

\* a later tick, ended by a failed read, at its sleep; poll interval 0
C12_Witness ==
    /\ poll_interval = 0
    /\ sleeps = <<0>>
    /\ mpc = "sleep"
    /\ cycle.readFailed # "none"

\* C13: a cycle in which an OS-counter read failed makes no metric and no
\* alert submission.
C13_NoPartialSample ==
    cycle.readFailed # "none" =>
        /\ cycle.log = <<>>
        /\ ~cycle.sampled
        /\ mpc = "sleep"

\* the last read of the window failed
C13_Witness ==
    /\ cycle.readFailed = "net_io_end"
    /\ mpc = "sleep"

\* C14: an inventory collection in which the node listing or a namespace's
\* pod listing failed submits no inventory, and the sampling region goes on
\* to its sleep.
C14_NoPartialSnapshot ==
    cycle.listFailed # "none" =>
        /\ Sent("inventory") = <<>>
        /\ cycle.invRan
        /\ mpc = "sleep"
        /\ ENABLED Sleep

\* the pod listing of the second namespace failed
C14_Witness ==
    /\ cycle.listFailed = "kube-system"
    /\ mpc = "sleep"

\* C15: each rate of a Sample is the end counter minus the start counter of
\* its window, and is not negative when the end counter is not below the
\* start counter.
C15_RatesAreDifferences ==
    window # NoWindow =>
        LET a == window.io_start
            b == window.io_end
            rate(i, x, y) == /\ all_metrics[i] = y - x
                             /\ (y >= x => all_metrics[i] >= 0)
        IN /\ rate(3, a.read_bytes, b.read_bytes)
           /\ rate(4, a.write_bytes, b.write_bytes)
           /\ rate(5, a.bytes_sent, b.bytes_sent)
           /\ rate(6, a.bytes_recv, b.bytes_recv)

\* a window over which the four counters grew by different amounts
C15_Witness ==
    /\ window # NoWindow
    /\ window.io_end.read_bytes > window.io_start.read_bytes
    /\ all_metrics[3] = 100
    /\ all_metrics[4] = 200
    /\ all_metrics[5] = 300
    /\ all_metrics[6] = 400

\* C16: last_inventory_time changes only in a tick that ran the inventory
\* collector, and a tick that ran it ends with last_inventory_time at the
\* time of its due check, whether the collection and its submission succeeded
\* or failed.
C16_InventoryClock ==
    [][ /\ (last_inventory_time' # last_inventory_time /\ mpc # "main_loop")
              => (cycle.invRan /\ last_inventory_time' = now)
        /\ (mpc' = "sleep" /\ cycle'.invRan) =>
              /\ last_inventory_time' = now'
              /\ last_inventory_time' = invTimes'[Len(invTimes')] ]_vars

\* a tick whose inventory submission failed, at its sleep
C16_Witness ==
    /\ mpc = "sleep"
    /\ cycle.invRan
    /\ Len(Sent("inventory")) = 1
    /\ Sent("inventory")[1].result = "failed"
    /\ last_inventory_time = now

\* C19: a tick that ends before its inventory-due check runs no inventory
\* collection and leaves last_inventory_time as it was; a tick runs the
\* collection only after a Sample was taken and all six metric submissions
\* and every alert submission of the tick succeeded.
C19_AbortedTickSkipsInventory ==
    [][ /\ (mpc' = "sleep" /\ mpc \in {"sample", "post_metric", "post_alert"})
              => /\ last_inventory_time' = last_inventory_time
                 /\ invTimes' = invTimes
                 /\ ~cycle'.invRan
                 /\ ~cycle'.dueChecked
        /\ cycle'.invRan =>
              /\ cycle'.sampled
              /\ Len(SelectSeq(cycle'.log,
                               LAMBDA e : e.endpoint = "metrics")) = 6
              /\ \A i \in 1..Len(cycle'.log) :
                    cycle'.log[i].endpoint \in {"metrics", "alerts"} =>
                       cycle'.log[i].result = "ok" ]_vars

\* inventory was due, the tick was aborted by a failed submission, and the
\* collection has not run
C19_Witness ==
    /\ mpc = "sleep"
    /\ SubmissionLost
    /\ invTimes = <<>>
    /\ ~firstCycle

----------------------------------------------------------------------------
(* Order of the watcher's work *)

\* C20: the watcher examines the next event only when the alert call of the
\* last one has ended, so at most one alert call of the watcher is in
\* progress and the calls are made in the order of the stream.
C20_OneEventAtATime ==
    [][ /\ (cur_event' # cur_event \/ wSubs' # wSubs) =>
              /\ wpc = "waiting"
              /\ call["watch"].status # "running"
        /\ call'["watch"].status = "running" =>
              /\ wpc' = "posting"
              /\ Len(wSubs') = 1
              /\ cur_event' = cur_event ]_vars

\* an alert call of the watcher at its third attempt
C20_Witness ==
    /\ wpc = "posting"
    /\ call["watch"].status = "running"
    /\ call["watch"].tries = 2

----------------------------------------------------------------------------
(* The two regions together *)

MainState ==
    <<mpc, call["main"], all_metrics, idx, last_inventory_time, now, cycle,
      firstCycle, invTimes, sleeps, window>>

WatchState == <<wpc, call["watch"], cur_event, wSubs>>

\* the main thread can take its next step (the clock bound of the model
\* aside)
MainCanStep ==
    \/ mpc = "sample" /\ ENABLED Sample
    \/ mpc = "post_metric" /\ ENABLED PostMetricAttempt
    \/ mpc = "post_alert" /\ ENABLED PostAlertAttempt
    \/ mpc = "check_inventory" /\ (now + TimeStep <= MaxTime
                                     => ENABLED CheckInventory)
    \/ mpc = "inventory" /\ ENABLED ReportInventoryList
    \/ mpc = "post_inventory" /\ ENABLED PostInventoryAttempt
    \/ mpc = "sleep" /\ ENABLED Sleep

\* C11: once main_loop runs, the sampling region can take its next step
\* whatever the watch region is doing, also after the watcher has ended; a
\* step of the watch region changes nothing of the sampling region, and a
\* step of the sampling region, failing or not, changes nothing of the watch
\* region.
C11_RegionsIsolated ==
    [][ /\ mpc' \in TickPcs \cup {"sleep"} => MainCanStep'
        /\ (WatchState' # WatchState /\ mpc # "boot") =>
              MainState' = MainState
        /\ (MainState' # MainState /\ mpc # "boot") =>
              WatchState' = WatchState ]_vars

\* the watcher has ended and the sampling region is posting the Memory
\* metric of a later tick
C11_Witness ==
    /\ wpc = "ended"
    /\ ~firstCycle
    /\ mpc = "post_metric"
    /\ idx = 2

\* C17: an attempt of one thread's call counts in that call only: it is
\* attempt 1 of a new call or one more than the call's last attempt, and the
\* other thread's call is left as it was; both calls keep to the budget of 5.
C17_RetryStatePerCall ==
    [][ \A t \in Threads :
          call'[t] # call[t] =>
             /\ \A u \in Threads \ {t} : call'[u] = call[u]
             /\ call'[t].tries \in
                   {0, IF call[t].status = "running"
                       THEN call[t].tries + 1 ELSE 1}
             /\ call'[t].tries <= 5
             /\ (call'[t].status = "running") =
                   (call'[t].tries \in 1..4 /\ Retryable(call'[t].resp)) ]_vars

\* both threads in the middle of a call, at different attempts
C17_Witness ==
    /\ call["main"].status = "running"
    /\ call["main"].tries = 4
    /\ call["watch"].status = "running"
    /\ call["watch"].tries = 1

\* C18: the watcher is started by the step that leaves the start-up code,
\* so before the first tick; it is never started again, and once its stream
\* has ended it stays ended.
C18_WatcherStartedOnce ==
    [][ /\ mpc' # "boot" => wpc' # "not_started"
        /\ (wpc = "not_started" /\ wpc' # "not_started") =>
              (mpc = "boot" /\ wpc' = "waiting" /\ firstCycle
               /\ cycle = NewCycle)
        /\ wpc # "not_started" => wpc' # "not_started"
        /\ wpc = "ended" => wpc' = "ended"
        /\ (wpc \in {"waiting", "posting"} /\ wpc' # wpc) =>
              mpc' = mpc ]_vars

\* the stream has ended and the sampling region is in a later tick
C18_Witness ==
    /\ wpc = "ended"
    /\ ~firstCycle
    /\ mpc = "sample"

====
